---- MODULE Spec2Model ----
(***************************************************************************)
(* Model of .github/check-license.py: the license-header check of one file *)
(* (check_file_header) and the module-level scan over the source           *)
(* directories that folds the per-file verdicts into the exit status.      *)
(*                                                                         *)
(* Text is a sequence of characters; a character is a one-element string,  *)
(* and the words of a header line that never need to be taken apart are    *)
(* kept as one element.  The line feed is the element LF.                  *)
(***************************************************************************)
EXTENDS Integers, Naturals, Sequences, FiniteSets, TLC

VARIABLES tree, pc, d, g, k, all_passed, calls, stdout, stderr, exit_status,
          fc, fo, fp, fr

vars == <<tree, pc, d, g, k, all_passed, calls, stdout, stderr, exit_status,
          fc, fo, fp, fr>>

scanVars == <<tree, pc, d, g, k, all_passed, calls, stdout, stderr, exit_status>>

----------------------------------------------------------------------------
(* Bounds *)

\* number of leading lines of the 15-line template that the model keeps
HeaderLen == 3
\* largest offset handed to check_file_header in the function-level check
MaxOffset == 2
\* largest number of files in the scanned trees
MaxFiles == 2

----------------------------------------------------------------------------
(* Text *)

LF == "\n"

Range(s) == {s[n] : n \in 1..Len(s)}

RECURSIVE Join(_)
\* the text whose lines are ls: the lines separated by line feeds
Join(ls) ==
    IF ls = <<>> THEN <<>>
    ELSE IF Len(ls) = 1 THEN ls[1]
    ELSE ls[1] \o <<LF>> \o Join(Tail(ls))

RECURSIVE SplitAcc(_, _, _, _)
SplitAcc(s, n, cur, acc) ==
    IF n > Len(s) THEN Append(acc, cur)
    ELSE IF s[n] = LF THEN SplitAcc(s, n + 1, <<>>, Append(acc, cur))
    ELSE SplitAcc(s, n + 1, Append(cur, s[n]), acc)

\* str.split("\n"): one more piece than there are line feeds
Split(s) == SplitAcc(s, 1, <<>>, <<>>)

----------------------------------------------------------------------------
(* The header template *)

\* the 15 lines of the template literal
TemplateLines ==
    << <<"DNSKit">>,
       <<"Copyright (C) Ian Spence and other DNSKit Contributors">>,
       <<>>,
       <<"This program is free software: you can redistribute it and/or modify">>,
       <<"it under the terms of the GNU Lesser General Public License as published by">>,
       <<"the Free Software Foundation, either version 3 of the License, or">>,
       <<"(at your option) any later version.">>,
       <<>>,
       <<"This program is distributed in the hope that it will be useful,">>,
       <<"but WITHOUT ANY WARRANTY; without even the implied warranty of">>,
       <<"MERCHANTABILITY or FITNESS FOR A PARTICULAR PURPOSE.  See the">>,
       <<"GNU Lesser General Public License for more details.">>,
       <<>>,
       <<"You should have received a copy of the GNU Lesser General Public License">>,
       <<"along with this program.  If not, see <https://www.gnu.org/licenses/>.">> >>

\* the template text, cut after its first HeaderLen lines
license_header_template == Join(SubSeq(TemplateLines, 1, HeaderLen))

header_lines == Split(license_header_template)

----------------------------------------------------------------------------
(* check_file_header *)

NoDiag == [kind |-> "none"]

NotCalled == [outcome |-> "none", reads |-> {}, diag |-> NoDiag]

\* the guard of line 49: TRUE when the file is rejected as too short
LengthGuard(lines, offset) == Len(lines) + offset < Len(header_lines)

LoopBoundWholeHeader == Len(header_lines)

\* exclusive upper bound of the loop counter i (line 54)
LoopBound == Len(header_lines) - 1

\* index of the file line compared with header line i (line 57)
FileLineIndexNoOffset(i, offset) == i

FileLineIndex(i, offset) == i + offset

\* the for-loop over the prefixes (lines 55-59)
LineMatchesFirstPrefix(line, prefixes, h) == line = prefixes[1] \o h

LineMatches(line, prefixes, h) ==
    \E n \in 1..Len(prefixes) : line = prefixes[n] \o h

\* the message of line 61; prefix is what the for-loop left in it, the last one
Diagnostic(i, got, prefixes, h) ==
    [kind |-> "mismatch", i |-> i, got |-> got,
     expected |-> prefixes[Len(prefixes)] \o h]

RECURSIVE CheckLoopNoBreak(_, _, _, _, _, _)
CheckLoopNoBreak(lines, offset, prefixes, i, reads, first) ==
    IF ~(i < LoopBound)
    THEN IF first = NoDiag
         THEN [outcome |-> "True", reads |-> reads, diag |-> NoDiag]
         ELSE [outcome |-> "False", reads |-> reads, diag |-> first]
    ELSE LET idx == FileLineIndex(i, offset) IN
         IF idx >= Len(lines)
         THEN [outcome |-> "IndexError", reads |-> reads \cup {idx}, diag |-> NoDiag]
         ELSE CheckLoopNoBreak(lines, offset, prefixes, i + 1, reads \cup {idx},
                  IF first = NoDiag /\ ~LineMatches(lines[idx + 1], prefixes, header_lines[i + 1])
                  THEN Diagnostic(i, lines[idx + 1], prefixes, header_lines[i + 1])
                  ELSE first)

\* the loop without the return of line 62: a mismatch is kept and the loop goes on
CheckLoopToEnd(lines, offset, prefixes, i, reads) ==
    CheckLoopNoBreak(lines, offset, prefixes, i, reads, NoDiag)

RECURSIVE CheckLoop(_, _, _, _, _)
\* the while-loop of lines 53-65, entered with counter i; reads collects the
\* (0-based) indices at which lines[...] has been evaluated
CheckLoop(lines, offset, prefixes, i, reads) ==
    IF ~(i < LoopBound)
    THEN [outcome |-> "True", reads |-> reads, diag |-> NoDiag]
    ELSE LET idx == FileLineIndex(i, offset) IN
         IF idx >= Len(lines)
         THEN [outcome |-> "IndexError", reads |-> reads \cup {idx}, diag |-> NoDiag]
         ELSE IF LineMatches(lines[idx + 1], prefixes, header_lines[i + 1])
         THEN CheckLoop(lines, offset, prefixes, i + 1, reads \cup {idx})
         ELSE [outcome |-> "False", reads |-> reads \cup {idx},
               diag |-> Diagnostic(i, lines[idx + 1], prefixes, header_lines[i + 1])]

\* check_file_header(filepath, offset, prefixes); file is what filepath names.
\* outcome is "True" or "False" for a returned verdict, and the name of the
\* exception when the call raises instead of returning.
check_file_header(file, offset, prefixes) ==
    IF ~file.readable
    THEN [outcome |-> "OSError", reads |-> {}, diag |-> NoDiag]
    ELSE LET lines == Split(file.content) IN
         IF LengthGuard(lines, offset)
         THEN [outcome |-> "False", reads |-> {}, diag |-> [kind |-> "missing"]]
         ELSE CheckLoop(lines, offset, prefixes, 0, {})

----------------------------------------------------------------------------
(* The rules of the three call sites *)

SlashSpace == <<"/", "/", " ">>
Slash == <<"/", "/">>
NoPrefix == <<>>

\* check_file_header(filepath, 0, ["// ", "//"]) for *.swift
SwiftOffset == 0
SwiftPrefixes == <<SlashSpace, Slash>>
\* check_file_header(filepath, 1, [""]) for *.go
GoOffset == 1
GoPrefixes == <<NoPrefix>>
\* check_file_header(filepath, 1, [""]) for *.py
PyOffset == 1
PyPrefixes == <<NoPrefix>>

ConfiguredRule(offset, prefixes) ==
    \/ offset = SwiftOffset /\ prefixes = SwiftPrefixes
    \/ offset = GoOffset /\ prefixes = GoPrefixes
    \/ offset = PyOffset /\ prefixes = PyPrefixes

----------------------------------------------------------------------------
(* Inputs of the function-level check *)

AllPrefixes == {SlashSpace, Slash, NoPrefix}

\* prefix lists: each prefix alone, the Swift list in both orders, and a
\* list with the empty prefix first
PrefixLists ==
    {<<p>> : p \in AllPrefixes}
        \cup {SwiftPrefixes, <<Slash, SlashSpace>>, <<NoPrefix, SlashSpace>>}

Offsets == 0..MaxOffset

Directive == <<"#!/usr/bin/env python3">>
WrongLine == <<"/", "/", " ", "Copyright (C) Someone Else">>
CodeLine == <<"import Foundation">>

\* what a file may hold where header line j (1-based) is expected
LineChoices(j) ==
    IF j <= HeaderLen
    THEN {p \o TemplateLines[j] : p \in AllPrefixes} \cup {WrongLine}
    ELSE {CodeLine}

AllLines == UNION {LineChoices(j) : j \in 1..(HeaderLen + 1)}

Bodies ==
    UNION {{b \in [1..n -> AllLines] : \A j \in 1..n : b[j] \in LineChoices(j)}
             : n \in 0..(HeaderLen + 1)}

Directives == {[j \in 1..n |-> Directive] : n \in 0..MaxOffset}

\* file texts: directive lines, then lines at the places of the header
\* lines, then possibly a final line feed
Contents ==
    {Join(dl \o b) \o tail : dl \in Directives, b \in Bodies, tail \in {<<>>, <<LF>>}}

Unreadable == [readable |-> FALSE, content |-> <<>>]

Files == {[readable |-> TRUE, content |-> c] : c \in Contents} \cup {Unreadable}

----------------------------------------------------------------------------
(* Inputs of the scan *)

\* a Swift file with the whole header, the two prefixes alternating
GoodSwift ==
    Join([j \in 1..HeaderLen |->
              (IF j % 2 = 1 THEN SlashSpace ELSE Slash) \o TemplateLines[j]]
         \o <<CodeLine>>) \o <<LF>>

\* a Go or Python file: a first line, then the whole header unprefixed
GoodPlain ==
    Join(<<Directive>> \o SubSeq(TemplateLines, 1, HeaderLen) \o <<CodeLine>>) \o <<LF>>

\* a Swift file whose second header line names somebody else
Mismatch ==
    Join([j \in 1..HeaderLen |->
              IF j = 2 THEN WrongLine ELSE SlashSpace \o TemplateLines[j]]) \o <<LF>>

\* a first line and the header less its last two lines, no final line feed
ShortPlain == Join(<<Directive>> \o SubSeq(TemplateLines, 1, HeaderLen - 2))

ScanFiles ==
    {[readable |-> TRUE, content |-> c] :
         c \in {GoodSwift, GoodPlain, Mismatch, ShortPlain, <<>>}} \cup {Unreadable}

\* for source_dir in [ "Sources", "Tests", ".github" ]
Dirs == 1..3
\* 1: swift_files, 2: go_files, 3: py_files
Groups == 1..3
Slots == Dirs \X Groups

EmptyTree == [s \in Slots |-> <<>>]

RECURSIVE Place(_, _)
\* the tree after the files of ps, pairs <<slot, file>>, were put into t
Place(t, ps) ==
    IF ps = <<>> THEN t
    ELSE Place([t EXCEPT ![ps[1][1]] = Append(@, ps[1][2])], Tail(ps))

Trees ==
    {Place(EmptyTree, ps) :
        ps \in UNION {[1..n -> Slots \X ScanFiles] : n \in 0..MaxFiles}}

\* the files of tree t, each named by directory, group and place in the list
FileIds(t) == UNION {{<<s[1], s[2], n>> : n \in 1..Len(t[s])} : s \in Slots}

FileAt(t, id) == t[<<id[1], id[2]>>][id[3]]

----------------------------------------------------------------------------
(* The scan *)

Raised(r) == r.outcome \in {"IndexError", "OSError"}

AllPassedOverwritten(ap, ok) == ok

\* if not check_file_header(...): all_passed = False
UpdateAllPassed(ap, ok) == IF ~ok THEN FALSE ELSE ap

Init ==
    /\ tree \in Trees
    /\ pc = "scan"
    /\ d = 1
    /\ g = 1
    /\ k = 1
    /\ all_passed = TRUE
    /\ calls = <<>>
    /\ stdout = <<>>
    /\ stderr = <<>>
    /\ exit_status = -1
    /\ fc = Unreadable
    /\ fo = 0
    /\ fp = <<NoPrefix>>
    /\ fr = NotCalled

\* one iteration of a "for filepath in ..." loop: the call, and on a failed
\* verdict the message on the error stream and all_passed = False.  An
\* exception of the call is caught nowhere: the interpreter writes the
\* traceback and exits with status 1.
CheckNext(group, offset, prefixes) ==
    /\ pc = "scan"
    /\ g = group
    /\ k <= Len(tree[<<d, g>>])
    /\ LET id == <<d, g, k>>
           file == FileAt(tree, id)
           r == check_file_header(file, offset, prefixes)
       IN /\ fc' = file
          /\ fo' = offset
          /\ fp' = prefixes
          /\ fr' = r
          /\ calls' = Append(calls, [file |-> id, outcome |-> r.outcome])
          /\ IF Raised(r)
             THEN /\ pc' = "crashed"
                  /\ exit_status' = 1
                  /\ stderr' = Append(stderr, [file |-> id, line |-> "Traceback"])
                  /\ UNCHANGED <<k, stdout, all_passed>>
             ELSE /\ k' = k + 1
                  /\ stdout' = IF r.diag.kind = "none" THEN stdout
                               ELSE Append(stdout, [file |-> id, diag |-> r.diag])
                  /\ stderr' = IF r.outcome = "True" THEN stderr
                               ELSE Append(stderr, [file |-> id, line |-> "Invalid license header"])
                  /\ all_passed' = UpdateAllPassed(all_passed, r.outcome = "True")
                  /\ UNCHANGED <<pc, exit_status>>
    /\ UNCHANGED <<tree, d, g>>

CheckSwift == CheckNext(1, SwiftOffset, SwiftPrefixes)

CheckGo == CheckNext(2, GoOffset, GoPrefixes)

CheckPy == CheckNext(3, PyOffset, PyPrefixes)

\* a file loop is exhausted and the next one of the same directory starts
NextGroup ==
    /\ pc = "scan"
    /\ k > Len(tree[<<d, g>>])
    /\ g < 3
    /\ g' = g + 1
    /\ k' = 1
    /\ UNCHANGED <<tree, pc, d, all_passed, calls, stdout, stderr, exit_status,
                   fc, fo, fp, fr>>

\* the last file loop of a directory is exhausted: the next source_dir
NextDir ==
    /\ pc = "scan"
    /\ k > Len(tree[<<d, g>>])
    /\ g = 3
    /\ d < 3
    /\ d' = d + 1
    /\ g' = 1
    /\ k' = 1
    /\ UNCHANGED <<tree, pc, all_passed, calls, stdout, stderr, exit_status,
                   fc, fo, fp, fr>>

\* if not all_passed: exit(1); falling off the end of the module exits with 0
Exit ==
    /\ pc = "scan"
    /\ k > Len(tree[<<d, g>>])
    /\ g = 3
    /\ d = 3
    /\ pc' = "done"
    /\ exit_status' = IF ~all_passed THEN 1 ELSE 0
    /\ UNCHANGED <<tree, d, g, k, all_passed, calls, stdout, stderr,
                   fc, fo, fp, fr>>

Next == CheckSwift \/ CheckGo \/ CheckPy \/ NextGroup \/ NextDir \/ Exit

Spec == Init /\ [][Next]_vars

----------------------------------------------------------------------------
(* check_file_header alone, on every input of the bounded sets *)

FnInit ==
    /\ tree = EmptyTree
    /\ pc = "call"
    /\ d = 1
    /\ g = 1
    /\ k = 1
    /\ all_passed = TRUE
    /\ calls = <<>>
    /\ stdout = <<>>
    /\ stderr = <<>>
    /\ exit_status = -1
    /\ fc \in Files
    /\ fo \in Offsets
    /\ fp \in PrefixLists
    /\ fr = NotCalled

FnCall ==
    /\ pc = "call"
    /\ fr = NotCalled
    /\ fr' = check_file_header(fc, fo, fp)
    /\ UNCHANGED <<scanVars, fc, fo, fp>>

FnNext == FnCall

FnSpec == FnInit /\ [][FnNext]_vars

----------------------------------------------------------------------------
(* Properties of check_file_header, stated on the frame of the last call:  *)
(* fc the file, fo the offset, fp the prefixes, fr what the call gave.     *)

Returned == fr.outcome # "none" /\ fc.readable

FileLines == Split(fc.content)

\* file line idx (0-based) exists and is header line i behind a prefix of fp
Accepts(idx, i) ==
    /\ idx < Len(FileLines)
    /\ \E p \in Range(fp) : FileLines[idx + 1] = p \o header_lines[i + 1]

\* file line idx (0-based) exists and is header line i behind no prefix of fp
Rejects(idx, i) ==
    /\ idx < Len(FileLines)
    /\ \A p \in Range(fp) : FileLines[idx + 1] # p \o header_lines[i + 1]

GuardPassed == ~(Len(FileLines) + fo < Len(header_lines))

\* C2: a file whose line i + offset is header line i behind some accepted
\* prefix, for every header line i, the prefix free to differ from line to
\* line, is given the verdict True.
C2_WholeHeaderSucceeds ==
    (Returned /\ \A i \in 0..(Len(header_lines) - 1) : Accepts(i + fo, i))
        => fr.outcome = "True"

C2_Witness ==
    /\ Returned
    /\ fo >= 1
    /\ Len(fp) = 2
    /\ \A i \in 0..(Len(header_lines) - 1) : Accepts(i + fo, i)
    /\ FileLines[fo + 1] = fp[2] \o header_lines[1]
    /\ FileLines[fo + 1] # fp[1] \o header_lines[1]
    /\ FileLines[fo + 2] = fp[1] \o header_lines[2]
    /\ FileLines[fo + 2] # fp[2] \o header_lines[2]
    /\ fr.outcome = "True"

\* C3: a file of fewer than offset + header_length - 1 lines is given the
\* verdict False by the length guard, and no file line is compared.
C3_ShortFileStopsAtGuard ==
    (Returned /\ Len(FileLines) < fo + Len(header_lines) - 1)
        => /\ fr.outcome = "False"
           /\ fr.diag.kind = "missing"
           /\ fr.reads = {}

\* the least header index whose file line exists and is rejected
FirstRejected ==
    CHOOSE i \in 0..(Len(header_lines) - 2) :
        /\ Rejects(i + fo, i)
        /\ \A j \in 0..(i - 1) : ~Rejects(j + fo, j)

\* C6: when the guard lets the file through and some checked header line i
\* finds at i + offset a file line that no accepted prefix makes equal to it,
\* the verdict is False, the diagnostic carries the least such i with that
\* file line and a prefixed header line i, and no file line past i + offset
\* is compared.
C6_FirstMismatchFails ==
    (/\ Returned
     /\ GuardPassed
     /\ \E i \in 0..(Len(header_lines) - 2) : Rejects(i + fo, i))
        => /\ fr.outcome = "False"
           /\ fr.diag.kind = "mismatch"
           /\ fr.diag.i = FirstRejected
           /\ fr.diag.got = FileLines[FirstRejected + fo + 1]
           /\ \E p \in Range(fp) :
                  fr.diag.expected = p \o header_lines[FirstRejected + 1]
           /\ \A r \in fr.reads : r <= FirstRejected + fo

C6_Witness ==
    /\ Returned
    /\ GuardPassed
    /\ Rejects(fo, 0)
    /\ Rejects(fo + 1, 1)
    /\ fr.outcome = "False"
    /\ fr.diag.kind = "mismatch"
    /\ fr.diag.i = 0
    /\ fr.reads = {fo}

\* the file of the last call with its first fo lines each replaced by line
WithLeadingLines(line) ==
    [readable |-> TRUE,
     content |-> Join([n \in 1..Len(FileLines) |->
                          IF n <= fo THEN line ELSE FileLines[n]])]

\* lines to stand before the offset: a directive, an empty line, code, and
\* header line 0 itself behind the first prefix
LeadingLines == {Directive, <<>>, CodeLine, fp[1] \o header_lines[1]}

\* one line that is no prefixed header line 0, then the whole header
DirectiveThenHeader ==
    /\ Len(FileLines) >= Len(header_lines) + 1
    /\ \A p \in Range(fp) : FileLines[1] # p \o header_lines[1]
    /\ \A i \in 0..(Len(header_lines) - 1) : Accepts(i + 1, i)

\* C7: one directive line followed by the header passes with offset 1 and
\* fails with offset 0; and with offset k the outcome is the same whatever
\* the first k lines of the file are.
C7_OffsetSkipsLeadingLines ==
    Returned =>
        /\ DirectiveThenHeader =>
               /\ fo = 1 => fr.outcome = "True"
               /\ fo = 0 => fr.outcome = "False"
        /\ \A line \in LeadingLines :
               check_file_header(WithLeadingLines(line), fo, fp).outcome = fr.outcome

C7_Witness ==
    /\ Returned
    /\ DirectiveThenHeader
    /\ FileLines[1] = Directive
    /\ fo = 1
    /\ fr.outcome = "True"

\* C8: when the guard lets the file through and the lines at offset ..
\* offset + header_length - 2 are the header lines 0 .. header_length - 2
\* behind accepted prefixes, the verdict is True, whatever stands at
\* offset + header_length - 1 and also when the file ends before it.
C8_LastHeaderLineUnchecked ==
    (/\ Returned
     /\ GuardPassed
     /\ \A i \in 0..(Len(header_lines) - 2) : Accepts(i + fo, i))
        => fr.outcome = "True"

C8_Witness ==
    /\ Returned
    /\ GuardPassed
    /\ \A i \in 0..(Len(header_lines) - 2) : Accepts(i + fo, i)
    /\ Rejects(fo + Len(header_lines) - 1, Len(header_lines) - 1)
    /\ fr.outcome = "True"

EndsWithLF(c) == c # <<>> /\ c[Len(c)] = LF

\* C9: under each configured rule, a text that does not end with a line feed
\* and the same text followed by one line feed get the same outcome.
C9_FinalLineFeedIrrelevant ==
    (Returned /\ ConfiguredRule(fo, fp) /\ ~EndsWithLF(fc.content))
        => check_file_header([readable |-> TRUE, content |-> fc.content \o <<LF>>],
                             fo, fp).outcome = fr.outcome

\* C10: under each configured rule the call on a readable file returns a
\* verdict, and every index at which it reads a file line is below the number
\* of file lines.
C10_NoOutOfRangeRead ==
    (Returned /\ ConfiguredRule(fo, fp))
        => /\ fr.outcome \in {"True", "False"}
           /\ \A r \in fr.reads : r < Len(FileLines)

----------------------------------------------------------------------------
(* Properties of the scan *)

Terminated == pc \in {"done", "crashed"}

CallsOn(id) == {n \in 1..Len(calls) : calls[n].file = id}

InvalidLines(id) ==
    {n \in 1..Len(stderr) : stderr[n] = [file |-> id, line |-> "Invalid license header"]}

C1_AtExit ==
    pc = "done" =>
        /\ {calls[n].file : n \in 1..Len(calls)} = FileIds(tree)
        /\ exit_status = 0 <=> \A n \in 1..Len(calls) : calls[n].outcome = "True"

\* C1: when the scan reaches its end every file has been checked and the exit
\* status is 0 exactly when every call gave True; and once all_passed is
\* False it stays False.
C1_ExitStatusIsConjunction ==
    /\ []C1_AtExit
    /\ [][~all_passed => ~all_passed']_vars

C1_Witness ==
    /\ pc = "done"
    /\ exit_status = 1
    /\ Len(calls) = 2
    /\ calls[1].outcome = "False"
    /\ calls[2].outcome = "True"

\* C4: when a file could not be opened, the run still ends with every file
\* of the tree checked, and with a non-zero exit status.
C4_UnreadableFileDoesNotAbort ==
    (Terminated /\ \E n \in 1..Len(calls) : calls[n].outcome = "OSError")
        => /\ \A id \in FileIds(tree) : CallsOn(id) # {}
           /\ exit_status # 0

\* C5: when the run has ended, every readable file of the tree has been
\* checked exactly once, with one "Invalid license header" line on the error
\* stream if its verdict was False and none otherwise.
C5_EveryFileCheckedOnce ==
    Terminated =>
        \A id \in FileIds(tree) :
            FileAt(tree, id).readable =>
                /\ Cardinality(CallsOn(id)) = 1
                /\ \A n \in CallsOn(id) :
                       Cardinality(InvalidLines(id)) =
                           IF calls[n].outcome = "False" THEN 1 ELSE 0

====
